---- MODULE Spec2Model ----
(***************************************************************************)
(* Model of the chat-formatting crate: the legacy parser                   *)
(* (Chat::from_legacy), the legacy renderer (to_legacy_string), the        *)
(* translation engine (Translator::translate) and the plain-text           *)
(* post-processor (legacy_to_plain).                                       *)
(*                                                                         *)
(* A Rust String is modelled as a sequence of characters, each character   *)
(* a one-character TLA+ string.  The escape marker U+00A7 is written       *)
(* Paragraph.                                                              *)
(***************************************************************************)
EXTENDS Integers, Sequences, FiniteSets, TLC

VARIABLES
    \* which entry point the caller runs: "from_legacy", "legacy_to_plain", "translate"
    op,
    \* ---- Chat::from_legacy (chat.rs 285-355) ----
    original,               \* the legacy string the caller started from
    legacy_text,            \* the argument of the current call
    pos,                    \* number of characters the for loop has consumed
    components,             \* Vec<ChatComponent> of flushed runs
    cur_text,
    cur_color,
    cur_formattings,
    previous_was_paragraph,
    root_component,         \* the returned component
    pc,                     \* "loop", "after_loop", "returned", "idle"
    renders,                \* successive to_legacy_string results of the parse/render cycle
    \* ---- legacy_to_plain (lib.rs 31-46) ----
    input,
    ipos,
    output,
    was_paragraph,
    ppc,                    \* "loop", "returned", "idle"
    \* ---- Translator::translate (translator.rs 21-51) ----
    translate_key,          \* the `translate` argument (the key)
    args,
    fallback,
    template,               \* the shadowed `translate`: the chosen template
    tpos,                   \* position of the replace_all scan in the template
    i,                      \* the implicit argument cursor
    result,                 \* the string built by replace_all
    tpc,                    \* "lookup", "replace", "returned", "panicked", "idle"
    \* ---- ChatComponent::to_legacy_string (chat.rs 75-144) ----
    component,                 \* the component rendered
    rendered,               \* the returned string
    rpc,                    \* "call", "returned", "panicked", "idle"
    \* ---- ChatColor Display / FromStr (formatting.rs 163-200) ----
    chat_color,               \* the ChatColor displayed, None when a string is parsed
    color_str,              \* the string displayed or handed to from_str
    parsed,                 \* the Result of from_str
    cpc,                    \* "display", "from_str", "returned", "panicked", "idle"
    \* ---- Deserialize for TextContent (chat.rs 146-180) ----
    json_fields,            \* the keys of the decoded object
    decoded,             \* the Result of the decoding
    dpc                     \* "decode", "returned", "idle"

legacyVars == <<original, legacy_text, pos, components, cur_text, cur_color, cur_formattings,
                previous_was_paragraph, root_component, pc, renders>>
plainVars == <<input, ipos, output, was_paragraph, ppc>>
translateVars == <<translate_key, args, fallback, template, tpos, i, result, tpc>>
renderVars == <<component, rendered, rpc>>
colorVars == <<chat_color, color_str, parsed, cpc>>
decodeVars == <<json_fields, decoded, dpc>>
moreVars == <<renderVars, colorVars, decodeVars>>
vars == <<op, legacyVars, plainVars, translateVars, moreVars>>

----------------------------------------------------------------------------
(* Bounds *)

\* longest legacy string handed to from_legacy / legacy_to_plain
MaxLen == 5
\* longest translation template (key, when the key is used as the template)
MaxTplLen == 4
\* parse/render cycles run after the first parse
MaxCycles == 3

----------------------------------------------------------------------------
(* Characters and strings *)

Paragraph == "SECTION_SIGN"

RECURSIVE StringsUpTo(_, _)
StringsUpTo(alphabet, n) ==
    IF n = 0 THEN {<<>>}
    ELSE LET shorter == StringsUpTo(alphabet, n - 1)
         IN  shorter \cup {Append(s, c) : s \in {t \in shorter : Len(t) = n - 1}, c \in alphabet}

Last(s) == s[Len(s)]

----------------------------------------------------------------------------
(* Code tables (formatting.rs) *)

None == [name |-> "None"]
Some(v) == [name |-> "Some", value |-> v]
Err == [name |-> "Err"]
Ok(v) == [name |-> "Ok", value |-> v]

ColorCodeChars ==
    {"0", "1", "2", "3", "4", "5", "6", "7", "8", "9", "a", "b", "c", "d", "e", "f", "r"}

from_color_code_char(color_code_char) ==
    CASE color_code_char = "0" -> Ok("Black")
      [] color_code_char = "1" -> Ok("DarkBlue")
      [] color_code_char = "2" -> Ok("DarkGreen")
      [] color_code_char = "3" -> Ok("DarkAqua")
      [] color_code_char = "4" -> Ok("DarkRed")
      [] color_code_char = "5" -> Ok("DarkPurple")
      [] color_code_char = "6" -> Ok("Gold")
      [] color_code_char = "7" -> Ok("Gray")
      [] color_code_char = "8" -> Ok("DarkGray")
      [] color_code_char = "9" -> Ok("Blue")
      [] color_code_char = "a" -> Ok("Green")
      [] color_code_char = "b" -> Ok("Aqua")
      [] color_code_char = "c" -> Ok("Red")
      [] color_code_char = "d" -> Ok("LightPurple")
      [] color_code_char = "e" -> Ok("Yellow")
      [] color_code_char = "f" -> Ok("White")
      [] color_code_char = "r" -> Ok("Reset")
      [] OTHER -> Err

\* ChatColor::Hex(_) is the only colour without a code; it is written "Hex".
into_color_code(color) ==
    CASE color = "Black" -> Some("0")
      [] color = "DarkBlue" -> Some("1")
      [] color = "DarkGreen" -> Some("2")
      [] color = "DarkAqua" -> Some("3")
      [] color = "DarkRed" -> Some("4")
      [] color = "DarkPurple" -> Some("5")
      [] color = "Gold" -> Some("6")
      [] color = "Gray" -> Some("7")
      [] color = "DarkGray" -> Some("8")
      [] color = "Blue" -> Some("9")
      [] color = "Green" -> Some("a")
      [] color = "Aqua" -> Some("b")
      [] color = "Red" -> Some("c")
      [] color = "LightPurple" -> Some("d")
      [] color = "Yellow" -> Some("e")
      [] color = "White" -> Some("f")
      [] color = "Reset" -> Some("r")
      [] OTHER -> None

from_format_code_char(format_code_char) ==
    CASE format_code_char = "l" -> Ok("Bold")
      [] format_code_char = "m" -> Ok("Strikethrough")
      [] format_code_char = "n" -> Ok("Underlined")
      [] format_code_char = "o" -> Ok("Italic")
      [] format_code_char = "k" -> Ok("Obfuscated")
      [] OTHER -> Err

----------------------------------------------------------------------------
(* Component model (chat.rs 44-73, 146-195) *)

new_literal(literal) == [kind |-> "Literal", text |-> literal]

\* #[derive(Default)] for ChatComponent, with TextContent::default()
DefaultComponent ==
    [content |-> new_literal(<<>>),
     bold |-> FALSE, italic |-> FALSE, underlined |-> FALSE,
     strikethrough |-> FALSE, obfuscated |-> FALSE,
     color |-> None, insertion |-> None, font |-> None,
     click_event |-> None, hover_event |-> None,
     extra |-> <<>>]

to_component(text, color, formattings) ==
    [DefaultComponent EXCEPT
        !.content = [kind |-> "Literal", text |-> text],
        !.color = color,
        !.bold = "Bold" \in formattings,
        !.italic = "Italic" \in formattings,
        !.obfuscated = "Obfuscated" \in formattings,
        !.strikethrough = "Strikethrough" \in formattings,
        !.underlined = "Underlined" \in formattings]

----------------------------------------------------------------------------
(* Chat::from_legacy (chat.rs 285-355) *)

\* the locals of from_legacy before the loop (chat.rs 286-290, 311)
ScanInit ==
    [components |-> <<>>, cur_text |-> <<>>, cur_color |-> None,
     cur_formattings |-> {}, previous_was_paragraph |-> FALSE]

\* `if !cur_text.is_empty() { components.push(to_component(..)); cur_text.clear(); }`
FlushRun(st) ==
    IF st.cur_text # <<>>
    THEN [st EXCEPT !.components =
                        Append(@, to_component(st.cur_text, st.cur_color, st.cur_formattings)),
                    !.cur_text = <<>>]
    ELSE st

\* chat.rs 320-326
ApplyFormatCode(st, char) ==
    LET format == from_format_code_char(char)
    IN  IF format.name = "Ok"
        THEN [FlushRun(st) EXCEPT !.cur_formattings = @ \cup {format.value}]
        ELSE st

\* ApplyColorCode without `cur_formattings.clear()`
ApplyColorCodeKeepFlags(st, char) ==
    LET color == from_color_code_char(char)
    IN  IF color.name = "Ok"
        THEN [FlushRun(st) EXCEPT !.cur_color = Some(color.value)]
        ELSE st

\* chat.rs 327-334
ApplyColorCode(st, char) ==
    LET color == from_color_code_char(char)
    IN  IF color.name = "Ok"
        THEN [FlushRun(st) EXCEPT !.cur_color = Some(color.value),
                                  !.cur_formattings = {}]
        ELSE st

\* LoopBody without the `continue` of chat.rs 335: the code character is also pushed
LoopBodyNoContinue(st, char) ==
    IF char = Paragraph
    THEN [st EXCEPT !.previous_was_paragraph = TRUE]
    ELSE LET coded == IF st.previous_was_paragraph
                      THEN ApplyColorCode(
                               ApplyFormatCode([st EXCEPT !.previous_was_paragraph = FALSE], char),
                               char)
                      ELSE st
         IN  [coded EXCEPT !.cur_text = Append(@, char)]

\* one iteration of `for char in legacy_text.chars()` (chat.rs 312-339)
LoopBody(st, char) ==
    IF char = Paragraph
    THEN [st EXCEPT !.previous_was_paragraph = TRUE]
    ELSE IF st.previous_was_paragraph
    THEN ApplyColorCode(
             ApplyFormatCode([st EXCEPT !.previous_was_paragraph = FALSE], char), char)
    ELSE [st EXCEPT !.cur_text = Append(@, char)]

\* the final flush (chat.rs 341-343); cur_text is not cleared here
FinalFlush(st) ==
    IF st.cur_text # <<>>
    THEN Append(st.components, to_component(st.cur_text, st.cur_color, st.cur_formattings))
    ELSE st.components

\* AssembleRoot nesting every run under the previous one instead of under the root
RECURSIVE AssembleRootNested(_)
AssembleRootNested(comps) ==
    IF comps = <<>> THEN DefaultComponent
    ELSE IF Len(comps) = 1 THEN comps[1]
    ELSE [comps[1] EXCEPT !.extra = Append(@, AssembleRootNested(Tail(comps)))]

\* chat.rs 345-352: the first run is the root, the others are pushed to root.extra
AssembleRoot(comps) ==
    IF comps = <<>> THEN DefaultComponent
    ELSE [comps[1] EXCEPT !.extra = @ \o Tail(comps)]

RECURSIVE ScanFrom(_, _, _)
ScanFrom(st, text, k) ==
    IF k > Len(text) THEN st ELSE ScanFrom(LoopBody(st, text[k]), text, k + 1)

\* Chat::from_legacy as a function: the component inside the returned Chat::Component
FromLegacy(text) == AssembleRoot(FinalFlush(ScanFrom(ScanInit, text, 1)))

----------------------------------------------------------------------------
(* Translator::translate (translator.rs 6, 21-51) *)

AsciiDigits == {"0", "1", "2", "3", "4", "5", "6", "7", "8", "9"}
\* \d of the regex crate is Unicode-aware: it also matches the decimal digits
\* of other scripts.  ARABIC-INDIC DIGIT THREE (U+0663) stands for them.
ArabicThree == "U+0663"
UnicodeDigits == AsciiDigits \cup {ArabicThree}
\* [A-Za-z]
AsciiLetters ==
    {"a", "b", "c", "d", "e", "f", "g", "h", "i", "j", "k", "l", "m",
     "n", "o", "p", "q", "r", "s", "t", "u", "v", "w", "x", "y", "z",
     "A", "B", "C", "D", "E", "F", "G", "H", "I", "J", "K", "L", "M",
     "N", "O", "P", "Q", "R", "S", "T", "U", "V", "W", "X", "Y", "Z"}

DigitValue(c) ==
    CASE c = "0" -> 0 [] c = "1" -> 1 [] c = "2" -> 2 [] c = "3" -> 3 [] c = "4" -> 4
      [] c = "5" -> 5 [] c = "6" -> 6 [] c = "7" -> 7 [] c = "8" -> 8 [] c = "9" -> 9

\* usize::MAX = 18446744073709551615 on a 64-bit target, digit by digit
UsizeMaxDigits ==
    <<1, 8, 4, 4, 6, 7, 4, 4, 0, 7, 3, 7, 0, 9, 5, 5, 1, 6, 1, 5>>

\* every index at or above IndexCap is out of range of every argument list of
\* the model, so parsed values are kept exactly below it and as IndexCap above
IndexCap == 1000

RECURSIVE StripZeros(_)
StripZeros(ds) == IF ds # <<>> /\ ds[1] = 0 THEN StripZeros(Tail(ds)) ELSE ds

RECURSIVE DigitsLeq(_, _)
\* lexicographic <= of two digit sequences of the same length
DigitsLeq(a, b) ==
    IF a = <<>> THEN TRUE
    ELSE IF a[1] # b[1] THEN a[1] < b[1]
    ELSE DigitsLeq(Tail(a), Tail(b))

RECURSIVE CappedValue(_, _)
CappedValue(ds, acc) ==
    IF ds = <<>> THEN acc
    ELSE LET next == acc * 10 + ds[1]
         IN  CappedValue(Tail(ds), IF next > IndexCap THEN IndexCap ELSE next)

\* str::parse::<usize>: empty input, a non-ASCII digit or a value above
\* usize::MAX is an error
ParseUsize(str) ==
    IF str = <<>> \/ \E k \in 1..Len(str) : str[k] \notin AsciiDigits
    THEN Err
    ELSE LET ds == StripZeros([k \in 1..Len(str) |-> DigitValue(str[k])])
         IN  IF Len(ds) > Len(UsizeMaxDigits)
                \/ (Len(ds) = Len(UsizeMaxDigits) /\ ~DigitsLeq(ds, UsizeMaxDigits))
             THEN Err
             ELSE Ok(CappedValue(ds, 0))

NoMatch == [found |-> FALSE]

RECURSIVE DigitRun(_, _)
\* length of the longest run of \d characters starting at position p
DigitRun(text, p) ==
    IF p <= Len(text) /\ text[p] \in UnicodeDigits THEN 1 + DigitRun(text, p + 1) ELSE 0

\* ARG_REGEX "%(?:(\d+)\$)?([A-Za-z%]|$)" anchored at position p
MatchAt(text, p) ==
    IF p > Len(text) \/ text[p] # "%" THEN NoMatch
    ELSE
      LET d == DigitRun(text, p + 1)
          q == p + d + 2     \* position after "%<digits>$"
          withIndex ==
            IF d >= 1 /\ p + d + 1 <= Len(text) /\ text[p + d + 1] = "$"
            THEN IF q <= Len(text) /\ text[q] \in AsciiLetters \cup {"%"}
                 THEN [found |-> TRUE, start |-> p, end |-> q + 1,
                       group_1 |-> SubSeq(text, p + 1, p + d), group_2 |-> <<text[q]>>]
                 ELSE IF q = Len(text) + 1
                 THEN [found |-> TRUE, start |-> p, end |-> q,
                       group_1 |-> SubSeq(text, p + 1, p + d), group_2 |-> <<>>]
                 ELSE NoMatch
            ELSE NoMatch
          withoutIndex ==
            IF p + 1 <= Len(text) /\ text[p + 1] \in AsciiLetters \cup {"%"}
            THEN [found |-> TRUE, start |-> p, end |-> p + 2,
                  group_1 |-> <<>>, group_2 |-> <<text[p + 1]>>]
            ELSE IF p = Len(text)
            THEN [found |-> TRUE, start |-> p, end |-> p + 1,
                  group_1 |-> <<>>, group_2 |-> <<>>]
            ELSE NoMatch
      IN  IF withIndex.found THEN withIndex ELSE withoutIndex

RECURSIVE NextMatch(_, _)
\* the leftmost match starting at or after position p
NextMatch(text, p) ==
    IF p > Len(text) THEN NoMatch
    ELSE LET m == MatchAt(text, p)
         IN  IF m.found THEN m ELSE NextMatch(text, p + 1)

\* args.get(index).unwrap_or(&"")
ArgOrEmpty(arglist, index) ==
    IF index >= 0 /\ index < Len(arglist) THEN arglist[index + 1] ELSE <<>>

\* Replacement that reduces the %% token to a single "%"
ReplacementSinglePercent(m, cursor, arglist, overflow_checks) ==
    IF m.group_2 = <<"%">>
    THEN [panic |-> FALSE, text |-> <<"%">>, cursor |-> cursor]
    ELSE IF m.group_2 # <<"s">>
    THEN [panic |-> FALSE, text |-> <<>>, cursor |-> cursor]
    ELSE LET custom_arg_index == ParseUsize(m.group_1)
         IN  IF custom_arg_index.name = "Ok"
             THEN IF custom_arg_index.value = 0
                  THEN [panic |-> overflow_checks, text |-> <<>>, cursor |-> cursor]
                  ELSE [panic |-> FALSE,
                        text |-> ArgOrEmpty(arglist, custom_arg_index.value - 1),
                        cursor |-> cursor]
             ELSE [panic |-> FALSE, text |-> ArgOrEmpty(arglist, cursor),
                   cursor |-> cursor + 1]

\* the closure handed to replace_all (translator.rs 31-49): the replacement
\* text of one match and the cursor `i` after it.  `custom_arg_index - 1`
\* with custom_arg_index = 0 panics when the build has overflow checks and
\* wraps to usize::MAX (out of range of every argument list) when it has not.
Replacement(m, cursor, arglist, overflow_checks) ==
    IF m.group_2 = <<"%">>
    THEN [panic |-> FALSE, text |-> <<"%", "%">>, cursor |-> cursor]
    ELSE IF m.group_2 # <<"s">>
    THEN [panic |-> FALSE, text |-> <<>>, cursor |-> cursor]
    ELSE LET custom_arg_index == ParseUsize(m.group_1)
         IN  IF custom_arg_index.name = "Ok"
             THEN IF custom_arg_index.value = 0
                  THEN [panic |-> overflow_checks, text |-> <<>>, cursor |-> cursor]
                  ELSE [panic |-> FALSE,
                        text |-> ArgOrEmpty(arglist, custom_arg_index.value - 1),
                        cursor |-> cursor]
             ELSE [panic |-> FALSE, text |-> ArgOrEmpty(arglist, cursor),
                   cursor |-> cursor + 1]

\* Lookup with the fallback taking precedence over the table
LookupFallbackFirst(translations, key, fb) ==
    IF fb.name = "Some" THEN fb.value
    ELSE IF key \in DOMAIN translations THEN translations[key]
    ELSE key

\* translator.rs 22-27: table entry, else fallback, else the key itself
Lookup(translations, key, fb) ==
    IF key \in DOMAIN translations THEN translations[key]
    ELSE IF fb.name = "Some" THEN fb.value
    ELSE key

RECURSIVE ReplaceAllFrom(_, _, _, _, _, _)
\* replace_all from position p on, with cursor `cursor` and `out` built so far
ReplaceAllFrom(text, p, cursor, out, arglist, overflow_checks) ==
    LET m == NextMatch(text, p)
    IN  IF ~m.found
        THEN [panic |-> FALSE, text |-> out \o SubSeq(text, p, Len(text))]
        ELSE LET r == Replacement(m, cursor, arglist, overflow_checks)
             IN  IF r.panic THEN [panic |-> TRUE, text |-> <<>>]
                 ELSE ReplaceAllFrom(text, m.end, r.cursor,
                                     out \o SubSeq(text, p, m.start - 1) \o r.text,
                                     arglist, overflow_checks)

\* Translator::translate as a function
Translate(translations, key, arglist, fb, overflow_checks) ==
    ReplaceAllFrom(Lookup(translations, key, fb), 1, 0, <<>>, arglist, overflow_checks)

----------------------------------------------------------------------------
(* to_legacy_string (chat.rs 75-144, 264-278) *)

Rendered(text) == [panic |-> FALSE, text |-> text]
RenderPanicked == [panic |-> TRUE, text |-> <<>>]
Then(a, b) == IF a.panic \/ b.panic THEN RenderPanicked ELSE Rendered(a.text \o b.text)

RECURSIVE EscapeDebug(_)
\* {:?} of a string escapes the quote and the backslash
EscapeDebug(str) ==
    IF str = <<>> THEN <<>>
    ELSE (IF str[1] \in {"\"", "\\"} THEN <<"\\", str[1]>> ELSE <<str[1]>>)
         \o EscapeDebug(Tail(str))

DebugString(str) == <<"\"">> \o EscapeDebug(str) \o <<"\"">>

\* ComponentFormatting emitting the flags in the order of the struct's fields
ComponentFormattingFieldOrder(self) ==
    (IF self.color.name = "Some" /\ into_color_code(self.color.value).name = "Some"
     THEN <<Paragraph, into_color_code(self.color.value).value>> ELSE <<>>)
    \o (IF self.bold THEN <<Paragraph, "l">> ELSE <<>>)
    \o (IF self.italic THEN <<Paragraph, "o">> ELSE <<>>)
    \o (IF self.underlined THEN <<Paragraph, "n">> ELSE <<>>)
    \o (IF self.strikethrough THEN <<Paragraph, "m">> ELSE <<>>)
    \o (IF self.obfuscated THEN <<Paragraph, "k">> ELSE <<>>)

\* chat.rs 78-99: the component_formatting prefix
ComponentFormatting(self) ==
    (IF self.color.name = "Some" /\ into_color_code(self.color.value).name = "Some"
     THEN <<Paragraph, into_color_code(self.color.value).value>> ELSE <<>>)
    \o (IF self.bold THEN <<Paragraph, "l">> ELSE <<>>)
    \o (IF self.italic THEN <<Paragraph, "o">> ELSE <<>>)
    \o (IF self.strikethrough THEN <<Paragraph, "m">> ELSE <<>>)
    \o (IF self.underlined THEN <<Paragraph, "n">> ELSE <<>>)
    \o (IF self.obfuscated THEN <<Paragraph, "k">> ELSE <<>>)

\* ResetSuffix omitting the reset when the node has no formatting
ResetSuffixWhenFormatted(self) ==
    IF ComponentFormatting(self) = <<>> THEN <<>> ELSE <<Paragraph, "r">>

\* chat.rs 137: output.push_str("\u{a7}r"), whatever the node's formatting
ResetSuffix(self) == <<Paragraph, "r">>

RECURSIVE ToLegacyString(_, _, _)
RECURSIVE ChatToLegacyString(_, _, _)
RECURSIVE RenderAll(_, _, _)
RECURSIVE ResolveArgs(_, _, _, _)

\* the concatenated renderings of a sequence of components (chat.rs 139-141, 270-274)
RenderAll(comps, translations, overflow_checks) ==
    IF comps = <<>> THEN Rendered(<<>>)
    ELSE Then(ToLegacyString(comps[1], translations, overflow_checks),
              RenderAll(Tail(comps), translations, overflow_checks))

\* chat.rs 114-126: each argument's rendering followed by component_formatting
ResolveArgs(with, component_formatting, translations, overflow_checks) ==
    IF with = <<>> THEN [panic |-> FALSE, list |-> <<>>]
    ELSE LET head == ChatToLegacyString(with[1], translations, overflow_checks)
             rest == ResolveArgs(Tail(with), component_formatting, translations,
                                 overflow_checks)
         IN  IF head.panic \/ rest.panic THEN [panic |-> TRUE, list |-> <<>>]
             ELSE [panic |-> FALSE,
                   list |-> <<head.text \o component_formatting>> \o rest.list]

\* impl TextFormatter for ChatComponent (chat.rs 76-143)
ToLegacyString(self, translations, overflow_checks) ==
    LET component_formatting == ComponentFormatting(self)
        content == self.content
        body ==
          CASE content.kind = "Literal" -> Rendered(content.text)
            [] content.kind = "Keybind" ->
                 Rendered(<<"<", "k", "e", "y", "b", "i", "n", "d", ":">>
                          \o DebugString(content.keybind) \o <<">">>)
            [] content.kind = "Nbt" -> Rendered(<<"<", "n", "b", "t", ">">>)
            [] content.kind = "ScoreboardValue" ->
                 Rendered(<<"<", "s", "b", "v", "a", "l", "u", "e", ":">>
                          \o DebugString(content.score.name) \o <<">">>)
            [] content.kind = "EntityNamesSelector" ->
                 Rendered(<<"<", "s", "e", "l", "e", "c", "t", "o", "r", ":">>
                          \o DebugString(content.selector) \o <<">">>)
            [] content.kind = "Translatable" ->
                 LET resolved_args ==
                       ResolveArgs(IF content.with.name = "Some" THEN content.with.value
                                   ELSE <<>>,
                                   component_formatting, translations, overflow_checks)
                 IN  IF resolved_args.panic THEN RenderPanicked
                     ELSE Translate(translations, content.translate, resolved_args.list,
                                    content.fallback, overflow_checks)
    IN  Then(Then(Rendered(component_formatting), body),
             Then(Rendered(ResetSuffix(self)),
                  RenderAll(self.extra, translations, overflow_checks)))

\* impl TextFormatter for Chat (chat.rs 265-277)
ChatToLegacyString(chat, translations, overflow_checks) ==
    CASE chat.kind = "Legacy" -> Rendered(chat.text)
      [] chat.kind = "Component" ->
           ToLegacyString(chat.component, translations, overflow_checks)
      [] chat.kind = "Components" ->
           RenderAll(chat.components, translations, overflow_checks)

----------------------------------------------------------------------------
(* legacy_to_plain (lib.rs 31-46).  lib.rs spells the marker literal as    *)
(* the two bytes C2 A7 of U+00A7 read in a Thai code page ('\u{e22}\u{e07}'); *)
(* a char literal of two characters does not compile, so the literal is     *)
(* read as the marker, as chat.rs spells it.                                 *)

\* PlainBody copying the code character as legacy_to_ansi does for unknown codes
PlainBodyCopyCode(st, chr) ==
    IF st.was_paragraph
    THEN [output |-> Append(st.output, chr), was_paragraph |-> FALSE]
    ELSE IF chr = Paragraph
    THEN [st EXCEPT !.was_paragraph = TRUE]
    ELSE [st EXCEPT !.output = Append(@, chr)]

\* one iteration of `for chr in input.chars()` (lib.rs 34-44)
PlainBody(st, chr) ==
    IF st.was_paragraph
    THEN [st EXCEPT !.was_paragraph = FALSE]
    ELSE IF chr = Paragraph
    THEN [st EXCEPT !.was_paragraph = TRUE]
    ELSE [st EXCEPT !.output = Append(@, chr)]

RECURSIVE PlainFrom(_, _, _)
PlainFrom(st, text, k) ==
    IF k > Len(text) THEN st ELSE PlainFrom(PlainBody(st, text[k]), text, k + 1)

\* legacy_to_plain as a function
LegacyToPlain(text) ==
    PlainFrom([output |-> <<>>, was_paragraph |-> FALSE], text, 1).output

----------------------------------------------------------------------------
(* Inputs *)

LegacyAlphabet == {Paragraph, "c", "r", "l", "o", "A"}

\* "\u{a7}cHello \u{a7}lWorld"
HelloWorld ==
    <<Paragraph, "c", "H", "e", "l", "l", "o", " ",
      Paragraph, "l", "W", "o", "r", "l", "d">>

\* "A\u{a7}o\u{a7}lA\u{a7}cA": three runs, the second with two flags and no colour
ThreeRuns ==
    <<"A", Paragraph, "o", Paragraph, "l", "A", Paragraph, "c", "A">>

LegacyInputs == StringsUpTo(LegacyAlphabet, MaxLen) \cup {HelloWorld, ThreeRuns}

TemplateAlphabet == {"%", "s", "$", "0", "2", "d", ArabicThree}

\* "%s and %2$s"
SAndSecond == <<"%", "s", " ", "a", "n", "d", " ", "%", "2", "$", "s">>
\* "100%% done"
HundredPercent == <<"1", "0", "0", "%", "%", " ", "d", "o", "n", "e">>
\* "%18446744073709551616$s%s": the index is usize::MAX + 1
IndexOverflow ==
    <<"%", "1", "8", "4", "4", "6", "7", "4", "4", "0", "7", "3", "7", "0", "9",
      "5", "5", "1", "6", "1", "6", "$", "s", "%", "s">>

Keys == StringsUpTo(TemplateAlphabet, MaxTplLen)
            \cup {SAndSecond, HundredPercent, IndexOverflow}

ArgA == <<"A">>
ArgB == <<"B">>
ArgLists == {<<>>, <<ArgA>>, <<ArgA, ArgB>>}

\* "%2$s!"
FallbackTemplate == <<"%", "2", "$", "s", "!">>
Fallbacks == {None, Some(FallbackTemplate)}

\* the translation table of the Translator (translator.rs 9-11, 14-19)
Translations ==
    (<<"d">> :> <<"%", "s">>) @@ (<<"d", "d">> :> <<"d", "%", "%", "%", "s">>)

----------------------------------------------------------------------------
(* Initial states *)

LegacyIdle ==
    /\ original = <<>> /\ legacy_text = <<>> /\ pos = 0 /\ components = <<>> /\ cur_text = <<>>
    /\ cur_color = None /\ cur_formattings = {} /\ previous_was_paragraph = FALSE
    /\ root_component = DefaultComponent /\ pc = "idle" /\ renders = <<>>

PlainIdle ==
    /\ input = <<>> /\ ipos = 0 /\ output = <<>> /\ was_paragraph = FALSE /\ ppc = "idle"

TranslateIdle ==
    /\ translate_key = <<>> /\ args = <<>> /\ fallback = None /\ template = <<>>
    /\ tpos = 1 /\ i = 0 /\ result = <<>> /\ tpc = "idle"

RenderIdle ==
    /\ component = DefaultComponent /\ rendered = <<>> /\ rpc = "idle"

ColorIdle ==
    /\ chat_color = None /\ color_str = <<>> /\ parsed = None /\ cpc = "idle"

DecodeIdle ==
    /\ json_fields = {} /\ decoded = None /\ dpc = "idle"

MoreIdle == RenderIdle /\ ColorIdle /\ DecodeIdle

\* a call of Chat::from_legacy
Init ==
    /\ op = "from_legacy"
    /\ legacy_text \in LegacyInputs
    /\ original = legacy_text
    /\ pos = 0
    /\ components = ScanInit.components
    /\ cur_text = ScanInit.cur_text
    /\ cur_color = ScanInit.cur_color
    /\ cur_formattings = ScanInit.cur_formattings
    /\ previous_was_paragraph = ScanInit.previous_was_paragraph
    /\ root_component = DefaultComponent
    /\ pc = "loop"
    /\ renders = <<>>
    /\ PlainIdle /\ TranslateIdle /\ MoreIdle

\* a call of legacy_to_plain
InitPlain ==
    /\ op = "legacy_to_plain"
    /\ input \in LegacyInputs
    /\ ipos = 0 /\ output = <<>> /\ was_paragraph = FALSE /\ ppc = "loop"
    /\ LegacyIdle /\ TranslateIdle /\ MoreIdle

\* a call of Translator::translate
InitTranslate ==
    /\ op = "translate"
    /\ translate_key \in Keys
    /\ args \in ArgLists
    /\ fallback \in Fallbacks
    /\ template = <<>> /\ tpos = 1 /\ i = 0 /\ result = <<>> /\ tpc = "lookup"
    /\ LegacyIdle /\ PlainIdle /\ MoreIdle

----------------------------------------------------------------------------
(* Actions: Chat::from_legacy and the parse/render cycle *)

ScanState ==
    [components |-> components, cur_text |-> cur_text, cur_color |-> cur_color,
     cur_formattings |-> cur_formattings,
     previous_was_paragraph |-> previous_was_paragraph]

SetScanState(st) ==
    /\ components' = st.components
    /\ cur_text' = st.cur_text
    /\ cur_color' = st.cur_color
    /\ cur_formattings' = st.cur_formattings
    /\ previous_was_paragraph' = st.previous_was_paragraph

\* one iteration of the for loop (chat.rs 312-339)
FromLegacyLoop ==
    /\ pc = "loop"
    /\ pos < Len(legacy_text)
    /\ SetScanState(LoopBody(ScanState, legacy_text[pos + 1]))
    /\ pos' = pos + 1
    /\ UNCHANGED <<op, moreVars, original, legacy_text, root_component, pc, renders, plainVars, translateVars>>

\* end of input: final flush, assembly and return (chat.rs 341-354)
FromLegacyReturn ==
    /\ pc = "loop"
    /\ pos = Len(legacy_text)
    /\ components' = FinalFlush(ScanState)
    /\ root_component' = AssembleRoot(FinalFlush(ScanState))
    /\ pc' = "returned"
    /\ UNCHANGED <<op, moreVars, original, legacy_text, pos, cur_text, cur_color, cur_formattings,
                   previous_was_paragraph, renders, plainVars, translateVars>>

\* the caller renders the parsed component with a default (empty) Translator
Render ==
    /\ pc = "returned"
    /\ Len(renders) < MaxCycles
    /\ \E overflow_checks \in BOOLEAN :
         LET r == ToLegacyString(root_component, <<>>, overflow_checks)
         IN  /\ ~r.panic
             /\ renders' = Append(renders, r.text)
    /\ pc' = "rendered"
    /\ UNCHANGED <<op, moreVars, original, legacy_text, pos, components, cur_text, cur_color, cur_formattings,
                   previous_was_paragraph, root_component, plainVars, translateVars>>

\* the caller hands the rendering back to Chat::from_legacy (the whole call)
Reparse ==
    /\ pc = "rendered"
    /\ LET text == Last(renders)
           st == ScanFrom(ScanInit, text, 1)
       IN  /\ legacy_text' = text
           /\ pos' = Len(text)
           /\ SetScanState([st EXCEPT !.components = FinalFlush(st)])
           /\ root_component' = AssembleRoot(FinalFlush(st))
    /\ pc' = "returned"
    /\ UNCHANGED <<op, moreVars, original, renders, plainVars, translateVars>>

Next == FromLegacyLoop \/ FromLegacyReturn \/ Render \/ Reparse

Spec == Init /\ [][Next]_vars

----------------------------------------------------------------------------
(* Actions: legacy_to_plain *)

\* one iteration of the for loop (lib.rs 34-44)
PlainLoop ==
    /\ ppc = "loop"
    /\ ipos < Len(input)
    /\ LET st == PlainBody([output |-> output, was_paragraph |-> was_paragraph],
                           input[ipos + 1])
       IN  /\ output' = st.output
           /\ was_paragraph' = st.was_paragraph
    /\ ipos' = ipos + 1
    /\ UNCHANGED <<op, moreVars, input, ppc, legacyVars, translateVars>>

\* lib.rs 45
PlainReturn ==
    /\ ppc = "loop"
    /\ ipos = Len(input)
    /\ ppc' = "returned"
    /\ UNCHANGED <<op, moreVars, input, ipos, output, was_paragraph, legacyVars, translateVars>>

NextPlain == PlainLoop \/ PlainReturn

SpecPlain == InitPlain /\ [][NextPlain]_vars

----------------------------------------------------------------------------
(* Actions: Translator::translate *)

\* translator.rs 22-27
TranslateLookup ==
    /\ tpc = "lookup"
    /\ template' = Lookup(Translations, translate_key, fallback)
    /\ tpc' = "replace"
    /\ UNCHANGED <<op, moreVars, translate_key, args, fallback, tpos, i, result,
                   legacyVars, plainVars>>

\* one match of replace_all and one call of the closure (translator.rs 30-49)
TranslateReplace ==
    /\ tpc = "replace"
    /\ NextMatch(template, tpos).found
    /\ \E overflow_checks \in BOOLEAN :
         LET m == NextMatch(template, tpos)
             r == Replacement(m, i, args, overflow_checks)
         IN  IF r.panic
             THEN /\ tpc' = "panicked"
                  /\ UNCHANGED <<tpos, i, result>>
             ELSE /\ result' = result \o SubSeq(template, tpos, m.start - 1) \o r.text
                  /\ i' = r.cursor
                  /\ tpos' = m.end
                  /\ tpc' = "replace"
    /\ UNCHANGED <<op, moreVars, translate_key, args, fallback, template, legacyVars, plainVars>>

\* no further match: the rest is copied and the string returned (translator.rs 50)
TranslateReturn ==
    /\ tpc = "replace"
    /\ ~NextMatch(template, tpos).found
    /\ result' = result \o SubSeq(template, tpos, Len(template))
    /\ tpos' = Len(template) + 1
    /\ tpc' = "returned"
    /\ UNCHANGED <<op, moreVars, translate_key, args, fallback, template, i, legacyVars, plainVars>>

NextTranslate == TranslateLookup \/ TranslateReplace \/ TranslateReturn

SpecTranslate == InitTranslate /\ [][NextTranslate]_vars

----------------------------------------------------------------------------
(* Properties of the parse/render cycle (specification Spec) *)

\* C1: with t the rendering after two parse/render cycles of any legacy
\* string, parsing and rendering t once more gives t again (t is a fixed
\* point of the cycle).
C1_FixedPointAfterTwoCycles ==
    Len(renders) >= 3 => renders[3] = renders[2]

\* three cycles have run on an input with a later run that has a flag but no
\* colour, for which the first two renderings differ
C1_Witness ==
    /\ Len(renders) = 3
    /\ legacy_text = renders[3]
    /\ renders[1] # renders[2]
    /\ \E k \in 1..Len(root_component.extra) : root_component.extra[k].bold

\* C2 as stated: the rendering u after ONE parse/render cycle is already a
\* fixed point of the cycle.
C2_FixedPointAfterOneCycle ==
    Len(renders) >= 2 => renders[2] = renders[1]

\* C2 (amended): the rendering u after one cycle is a fixed point exactly
\* when no run of the parsed input after the first lacks a colour; a later
\* run without colour is re-parsed with the colour reset, which adds a reset
\* code to the second rendering.
C2_FixedPointAfterOneCycleIffColored ==
    Len(renders) >= 2 =>
        LET first == FromLegacy(original)
        IN  (renders[2] = renders[1])
              <=> (\A k \in 1..Len(first.extra) : first.extra[k].color # None)

\* two cycles have run on an input whose second run has a flag but no colour
C2_Witness ==
    /\ Len(renders) = 2
    /\ renders[2] # renders[1]
    /\ \E k \in 1..Len(root_component.extra) :
         root_component.extra[k].bold /\ root_component.extra[k].color = Some("Reset")

----------------------------------------------------------------------------
(* Properties of legacy_to_plain (specification SpecPlain) *)

Contains(str, c) == \E k \in 1..Len(str) : str[k] = c

\* C3: whatever the input, consecutive or trailing escape markers included,
\* the output of legacy_to_plain never holds an escape marker.
C3_PlainHasNoMarker ==
    ~Contains(output, Paragraph)

\* legacy_to_plain returned on an input with two consecutive markers, a
\* trailing marker and some literal text
C3_Witness ==
    /\ ppc = "returned"
    /\ output # <<>>
    /\ Last(input) = Paragraph
    /\ \E k \in 1..(Len(input) - 1) : input[k] = Paragraph /\ input[k + 1] = Paragraph

----------------------------------------------------------------------------
(* Properties of Translator::translate (specification SpecTranslate) *)

\* C4 as stated: translate never fails, whatever the key, the arguments, the
\* fallback and the template (an explicit index 0 included).
C4_TranslateNeverFails ==
    tpc # "panicked"

\* the match the next TranslateReplace step handles
CurrentMatch == NextMatch(template, tpos)

\* a step of replace_all that handles one token
TokenStep ==
    /\ tpc = "replace"
    /\ CurrentMatch.found
    /\ tpc' # tpc \/ tpos' # tpos

\* the text one token step appends in place of the token
Substituted(text) ==
    /\ tpc' = "replace"
    /\ result' = result \o SubSeq(template, tpos, CurrentMatch.start - 1) \o text

\* the one-based index N of an explicit-index token, capped like ParseUsize;
\* the digits of other scripts count with their decimal value
RECURSIVE ExplicitIndex(_, _)
ExplicitIndex(digits, acc) ==
    IF digits = <<>> THEN acc
    ELSE LET d == IF digits[1] = ArabicThree THEN 3 ELSE DigitValue(digits[1])
             next == acc * 10 + d
         IN  ExplicitIndex(Tail(digits), IF next > IndexCap THEN IndexCap ELSE next)

\* C5 as stated: a %N$s token is replaced by args[N-1] (empty when there is
\* no such argument) and leaves the implicit cursor unchanged; a %s token is
\* replaced by the next unused argument and advances the cursor; no other
\* token moves the cursor; "%s and %2$s" with [A, B] gives "A and B".
C5_ExplicitAndImplicitIndex ==
    /\ [][TokenStep =>
            LET m == CurrentMatch
            IN  IF m.group_2 = <<"s">>
                THEN IF m.group_1 # <<>>
                     THEN /\ Substituted(ArgOrEmpty(args, ExplicitIndex(m.group_1, 0) - 1))
                          /\ i' = i
                     ELSE /\ Substituted(ArgOrEmpty(args, i))
                          /\ i' = i + 1
                ELSE i' = i]_vars
    /\ [](tpc = "returned" /\ template = SAndSecond /\ args = <<ArgA, ArgB>>
            => result = <<"A", " ", "a", "n", "d", " ", "B">>)

RECURSIVE PercentEscapedOnly(_)
\* the template is made of characters other than % and of %% pairs only
PercentEscapedOnly(text) ==
    IF text = <<>> THEN TRUE
    ELSE IF text[1] # "%" THEN PercentEscapedOnly(Tail(text))
    ELSE Len(text) >= 2 /\ text[2] = "%" /\ PercentEscapedOnly(Tail(Tail(text)))

C7_TemplatePriority ==
    /\ tpc # "lookup" /\ tpc # "idle" =>
         /\ translate_key \in DOMAIN Translations => template = Translations[translate_key]
         /\ translate_key \notin DOMAIN Translations /\ fallback.name = "Some"
              => template = fallback.value
         /\ translate_key \notin DOMAIN Translations /\ fallback.name = "None"
              => template = translate_key
    /\ tpc = "returned" /\ args = <<ArgA, ArgB>> =>
         /\ translate_key = <<"d">> => result = <<"A">>
         /\ translate_key = <<"d", "d">> => result = <<"d", "%", "%", "A">>
         /\ translate_key = <<"s">> /\ fallback.name = "Some" => result = <<"B", "!">>
         /\ translate_key = <<"%", "s">> /\ fallback.name = "None" => result = <<"A">>

\* translate returned for a key of the table, called with a fallback
C7_Witness ==
    /\ tpc = "returned"
    /\ translate_key = <<"d">>
    /\ fallback = Some(FallbackTemplate)
    /\ args = <<ArgA, ArgB>>
    /\ result = <<"A">>

----------------------------------------------------------------------------
(* Properties of the scan of Chat::from_legacy (specification Spec) *)

\* a loop iteration of from_legacy that handles the character after a marker
CodeStep ==
    /\ pc = "loop" /\ pc' = "loop"
    /\ pos' = pos + 1
    /\ previous_was_paragraph

\* the character a loop iteration handles
CurrentChar == legacy_text[pos + 1]

FlagCodeChars == {"k", "l", "m", "n", "o"}

FlagOfCode(c) ==
    CASE c = "l" -> "Bold" [] c = "o" -> "Italic" [] c = "n" -> "Underlined"
      [] c = "m" -> "Strikethrough" [] c = "k" -> "Obfuscated"

\* a run is a literal component with the given text, colour and flags
IsRun(run, text, color, formattings) ==
    /\ run.content = [kind |-> "Literal", text |-> text]
    /\ run.color = color
    /\ run.bold = ("Bold" \in formattings)
    /\ run.italic = ("Italic" \in formattings)
    /\ run.underlined = ("Underlined" \in formattings)
    /\ run.strikethrough = ("Strikethrough" \in formattings)
    /\ run.obfuscated = ("Obfuscated" \in formattings)

\* the step pushed nothing, or flushed the pending text as one run that
\* carries the colour and the flags active before the step
FlushedWithPrevious ==
    \/ components' = components /\ cur_text' = cur_text
    \/ /\ cur_text # <<>> /\ cur_text' = <<>>
       /\ Len(components') = Len(components) + 1
       /\ SubSeq(components', 1, Len(components)) = components
       /\ IsRun(Last(components'), cur_text, cur_color, cur_formattings)

\* C8: during the scan a flag code only adds its flag to the active set and
\* leaves the colour alone, a colour code (reset included) replaces the
\* colour and empties the flag set, and a run flushed by a code carries the
\* colour and flags active before that code; "\u{a7}cHello \u{a7}lWorld"
\* gives root "Hello " (Red, no flag) with the one child "World" (Red, bold).
C8_FlagsAccumulateColorsReset ==
    /\ [][CodeStep =>
            /\ CurrentChar \in FlagCodeChars =>
                 /\ cur_color' = cur_color
                 /\ cur_formattings' = cur_formattings \cup {FlagOfCode(CurrentChar)}
                 /\ FlushedWithPrevious
            /\ CurrentChar \in ColorCodeChars =>
                 /\ cur_color' = Some(from_color_code_char(CurrentChar).value)
                 /\ cur_formattings' = {}
                 /\ FlushedWithPrevious]_vars
    /\ [](pc = "returned" /\ legacy_text = HelloWorld =>
            /\ IsRun(root_component, <<"H", "e", "l", "l", "o", " ">>, Some("Red"), {})
            /\ Len(root_component.extra) = 1
            /\ IsRun(root_component.extra[1], <<"W", "o", "r", "l", "d">>,
                     Some("Red"), {"Bold"}))

\* the example has been parsed
C8_Witness ==
    /\ pc = "returned"
    /\ legacy_text = HelloWorld
    /\ Len(root_component.extra) = 1
    /\ root_component.extra[1].bold

\* C9 as stated: every marker consumes exactly the next character as its code,
\* another marker included; when that character is neither a colour nor a flag
\* code nothing is flushed, text, colour and flags stay as they are, and the
\* characters after it are scanned as ordinary input.
C9_UnknownCodeDropped ==
    [][CodeStep /\ CurrentChar \notin ColorCodeChars \cup FlagCodeChars =>
          /\ previous_was_paragraph' = FALSE
          /\ components' = components
          /\ cur_text' = cur_text
          /\ cur_color' = cur_color
          /\ cur_formattings' = cur_formattings]_vars

\* C10: the returned tree is flat: the first run is the root, the later runs
\* are its children in input order, no child has children, every run has
\* non-empty literal text and no insertion, font, click or hover data; with
\* no run at all the result is the default component.
C10_FlatTree ==
    pc = "returned" =>
        /\ components = <<>> => root_component = DefaultComponent
        /\ components # <<>> =>
             /\ [root_component EXCEPT !.extra = <<>>] = components[1]
             /\ root_component.extra = Tail(components)
        /\ \A k \in 1..Len(components) :
             LET run == components[k]
             IN  /\ run.content.kind = "Literal"
                 /\ run.content.text # <<>>
                 /\ run.extra = <<>>
                 /\ run.insertion = None /\ run.font = None
                 /\ run.click_event = None /\ run.hover_event = None
        /\ \A k \in 1..Len(root_component.extra) : root_component.extra[k].extra = <<>>

\* a parse returned three runs
C10_Witness ==
    /\ pc = "returned"
    /\ Len(components) = 3
    /\ Len(root_component.extra) = 2

----------------------------------------------------------------------------
(* A call of ChatComponent::to_legacy_string (specification SpecRender) *)

ChatFormats == {"Bold", "Italic", "Underlined", "Strikethrough", "Obfuscated"}

\* None, a colour with a code, reset, and a byte-triplet colour
NodeColors == {None, Some("Red"), Some("Reset"), Some("Hex")}

\* a component with the given content, colour, flags and children
Node(content, color, formattings, extra) ==
    [DefaultComponent EXCEPT
        !.content = content,
        !.color = color,
        !.bold = "Bold" \in formattings,
        !.italic = "Italic" \in formattings,
        !.underlined = "Underlined" \in formattings,
        !.strikethrough = "Strikethrough" \in formattings,
        !.obfuscated = "Obfuscated" \in formattings,
        !.extra = extra]

LeafC == Node(new_literal(<<"C">>), Some("Hex"), {"Obfuscated"}, <<>>)
LeafA == Node(new_literal(<<"A">>), Some("Red"), {"Bold"}, <<>>)
LeafB == Node(new_literal(<<"B">>), None, {"Italic", "Underlined"}, <<LeafC>>)

ChildLists == {<<>>, <<LeafA>>, <<LeafB, LeafA>>}

Legacy(text) == [kind |-> "Legacy", text |-> text]

\* the arguments of a translatable node: bare legacy strings (plain, with a
\* colour code, with a flag code, ending in a marker), a component, a
\* component sequence
WithLists ==
    {None,
     Some(<<Legacy(<<"X">>)>>),
     Some(<<Legacy(<<Paragraph, "a", "X">>)>>),
     Some(<<Legacy(<<Paragraph, "l", "X">>), Legacy(<<"Y", Paragraph>>)>>),
     Some(<<[kind |-> "Component", component |-> LeafA], Legacy(<<"X">>)>>),
     Some(<<[kind |-> "Components", components |-> <<LeafB, LeafA>>],
            [kind |-> "Component", component |-> LeafB]>>)}

\* "%s!", "d%2$s%s", "d" (a key of the table), "%0$s"
RenderKeys ==
    {<<"%", "s", "!">>, <<"d", "%", "2", "$", "s", "%", "s">>, <<"d">>,
     <<"%", "0", "$", "s">>}

Contents ==
    {new_literal(<<>>), new_literal(<<"A", "b">>)}
    \cup {[kind |-> "Translatable", translate |-> k, with |-> w, fallback |-> None] :
            k \in RenderKeys, w \in WithLists}
    \cup {[kind |-> "Keybind", keybind |-> <<"k", "\"">>],
          [kind |-> "Nbt", nbt |-> <<"n">>],
          [kind |-> "ScoreboardValue",
           score |-> [name |-> <<"p">>, objective |-> <<"o">>, value |-> None]],
          [kind |-> "EntityNamesSelector", selector |-> <<"@", "a">>]}

RenderInputs ==
    {Node(c, col, f, e) :
        c \in Contents, col \in NodeColors, f \in SUBSET ChatFormats, e \in ChildLists}

LegacyPlainTranslateIdle == LegacyIdle /\ PlainIdle /\ TranslateIdle

InitRender ==
    /\ op = "to_legacy_string"
    /\ component \in RenderInputs
    /\ rendered = <<>>
    /\ rpc = "call"
    /\ LegacyPlainTranslateIdle /\ ColorIdle /\ DecodeIdle

\* the whole call of to_legacy_string (chat.rs 76-143)
RenderComponent ==
    /\ rpc = "call"
    /\ \E overflow_checks \in BOOLEAN :
         LET r == ToLegacyString(component, Translations, overflow_checks)
         IN  IF r.panic
             THEN rpc' = "panicked" /\ rendered' = rendered
             ELSE rpc' = "returned" /\ rendered' = r.text
    /\ UNCHANGED <<op, component, legacyVars, plainVars, translateVars, colorVars, decodeVars>>

NextRender == RenderComponent

SpecRender == InitRender /\ [][NextRender]_vars

\* the code of a colour, for the colours that have one
CodeOfColor ==
    [c \in {"Red", "Reset"} |-> IF c = "Red" THEN "c" ELSE "r"]

\* the prefix the renderer is to emit: colour code, then the flags in the
\* order bold, italic, strikethrough, underlined, obfuscated
ExpectedPrefix(node) ==
    (IF node.color.name = "Some" /\ node.color.value \in DOMAIN CodeOfColor
     THEN <<Paragraph, CodeOfColor[node.color.value]>> ELSE <<>>)
    \o (IF node.bold THEN <<Paragraph, "l">> ELSE <<>>)
    \o (IF node.italic THEN <<Paragraph, "o">> ELSE <<>>)
    \o (IF node.strikethrough THEN <<Paragraph, "m">> ELSE <<>>)
    \o (IF node.underlined THEN <<Paragraph, "n">> ELSE <<>>)
    \o (IF node.obfuscated THEN <<Paragraph, "k">> ELSE <<>>)

RECURSIVE ExpectedLiteralTree(_)
RECURSIVE ExpectedLiteralTrees(_)
\* the rendering of a tree of literal nodes as the claim describes it
ExpectedLiteralTree(node) ==
    ExpectedPrefix(node) \o node.content.text \o <<Paragraph, "r">>
        \o ExpectedLiteralTrees(node.extra)
ExpectedLiteralTrees(nodes) ==
    IF nodes = <<>> THEN <<>>
    ELSE ExpectedLiteralTree(nodes[1]) \o ExpectedLiteralTrees(Tail(nodes))

\* C11: to_legacy_string returns the formatting prefix (colour code when the
\* colour has one, then the set flags in the order bold, italic,
\* strikethrough, underlined, obfuscated), the content body, the reset code
\* whatever the formatting, and the renderings of the children in order.
C11_PrefixBodyResetChildren ==
    rpc = "returned" =>
        LET pre == ExpectedPrefix(component)
            suf == <<Paragraph, "r">> \o ExpectedLiteralTrees(component.extra)
            n == Len(rendered)
        IN  /\ n >= Len(pre) + Len(suf)
            /\ SubSeq(rendered, 1, Len(pre)) = pre
            /\ SubSeq(rendered, n - Len(suf) + 1, n) = suf
            /\ component.content.kind = "Literal" =>
                 rendered = pre \o component.content.text \o suf
            /\ component.content.kind = "Nbt" =>
                 rendered = pre \o <<"<", "n", "b", "t", ">">> \o suf

\* a literal node with a byte-triplet colour, all five flags and two children,
\* one of them with a child of its own, has been rendered
C11_Witness ==
    /\ rpc = "returned"
    /\ component.content = new_literal(<<"A", "b">>)
    /\ component.color = Some("Hex")
    /\ component.bold /\ component.italic /\ component.underlined
    /\ component.strikethrough /\ component.obfuscated
    /\ Len(component.extra) = 2
    /\ rendered = <<Paragraph, "l", Paragraph, "o", Paragraph, "m", Paragraph, "n",
                    Paragraph, "k", "A", "b", Paragraph, "r",
                    Paragraph, "o", Paragraph, "n", "B", Paragraph, "r",
                    Paragraph, "k", "C", Paragraph, "r",
                    Paragraph, "c", Paragraph, "l", "A", Paragraph, "r">>

----------------------------------------------------------------------------
(* ChatColor as a value of its own (formatting.rs 5-26): in Display and     *)
(* FromStr a colour is a record, [variant |-> name] for the 17 named        *)
(* variants and [variant |-> "Hex", rgb |-> <<r, g, b>>] for Hex([u8; 3]).  *)

NamedVariants ==
    {"Black", "DarkBlue", "DarkGreen", "DarkAqua", "DarkRed", "DarkPurple", "Gold", "Gray", "DarkGray", "Blue", "Green", "Aqua", "Red", "LightPurple", "Yellow", "White", "Reset"}

Named(variant) == [variant |-> variant]
Hex(rgb) == [variant |-> "Hex", rgb |-> rgb]

ErrKind(kind) == [name |-> "Err", kind |-> kind]

UpperHexDigits ==
    <<"0", "1", "2", "3", "4", "5", "6", "7", "8", "9", "A", "B", "C", "D", "E", "F">>

\* HexByte for the format {:X}: no padding to two digits
HexByteNoPad(n) ==
    IF n < 16 THEN <<UpperHexDigits[n + 1]>>
    ELSE <<UpperHexDigits[(n \div 16) + 1], UpperHexDigits[(n % 16) + 1]>>

\* the format {:02X} of a u8 (formatting.rs 183)
HexByte(n) ==
    <<UpperHexDigits[(n \div 16) + 1], UpperHexDigits[(n % 16) + 1]>>

\* the names written by Display (formatting.rs 166-182)
DisplayName(variant) ==
    CASE variant = "Black" -> <<"b", "l", "a", "c", "k">>
      [] variant = "DarkBlue" -> <<"d", "a", "r", "k", "_", "b", "l", "u", "e">>
      [] variant = "DarkGreen" -> <<"d", "a", "r", "k", "_", "g", "r", "e", "e", "n">>
      [] variant = "DarkAqua" -> <<"d", "a", "r", "k", "_", "a", "q", "u", "a">>
      [] variant = "DarkRed" -> <<"d", "a", "r", "k", "_", "r", "e", "d">>
      [] variant = "DarkPurple" -> <<"d", "a", "r", "k", "_", "p", "u", "r", "p", "l", "e">>
      [] variant = "Gold" -> <<"g", "o", "l", "d">>
      [] variant = "Gray" -> <<"g", "r", "a", "y">>
      [] variant = "DarkGray" -> <<"d", "a", "r", "k", "_", "g", "r", "a", "y">>
      [] variant = "Blue" -> <<"b", "l", "u", "e">>
      [] variant = "Green" -> <<"g", "r", "e", "e", "n">>
      [] variant = "Aqua" -> <<"a", "q", "u", "a">>
      [] variant = "Red" -> <<"r", "e", "d">>
      [] variant = "LightPurple" -> <<"l", "i", "g", "h", "t", "_", "p", "u", "r", "p", "l", "e">>
      [] variant = "Yellow" -> <<"y", "e", "l", "l", "o", "w">>
      [] variant = "White" -> <<"w", "h", "i", "t", "e">>
      [] variant = "Reset" -> <<"r", "e", "s", "e", "t">>

\* impl Display for ChatColor (formatting.rs 163-186)
Display(c) ==
    IF c.variant = "Hex"
    THEN <<"#">> \o HexByte(c.rgb[1]) \o HexByte(c.rgb[2]) \o HexByte(c.rgb[3])
    ELSE DisplayName(c.variant)

\* the length in bytes of a character in UTF-8
Utf8Len(c) == IF c \in {Paragraph, ArabicThree} THEN 2 ELSE 1

RECURSIVE ByteLen(_)
\* str::len
ByteLen(str) == IF str = <<>> THEN 0 ELSE Utf8Len(str[1]) + ByteLen(Tail(str))

\* the byte offset at which character k of str starts
ByteOffset(str, k) == ByteLen(SubSeq(str, 1, k - 1))

\* str::is_char_boundary
IsCharBoundary(str, p) ==
    p = ByteLen(str) \/ \E k \in 1..Len(str) : ByteOffset(str, k) = p

\* &str[a..b] for byte offsets on character boundaries
ByteSlice(str, a, b) ==
    LET ks == {k \in 1..Len(str) : a <= ByteOffset(str, k) /\ ByteOffset(str, k) < b}
    IN  IF ks = {} THEN <<>>
        ELSE SubSeq(str, CHOOSE k \in ks : \A j \in ks : k <= j,
                         CHOOSE k \in ks : \A j \in ks : k >= j)

HexDigitValue ==
    [c \in {"0", "1", "2", "3", "4", "5", "6", "7", "8", "9",
            "a", "b", "c", "d", "e", "f", "A", "B", "C", "D", "E", "F"} |->
        CASE c \in AsciiDigits -> DigitValue(c)
          [] c \in {"a", "A"} -> 10 [] c \in {"b", "B"} -> 11 [] c \in {"c", "C"} -> 12
          [] c \in {"d", "D"} -> 13 [] c \in {"e", "E"} -> 14 [] c \in {"f", "F"} -> 15]

RECURSIVE Radix16Value(_, _)
Radix16Value(digits, acc) ==
    IF digits = <<>> THEN acc
    ELSE Radix16Value(Tail(digits), IF acc > 255 THEN acc ELSE acc * 16 + HexDigitValue[digits[1]])

\* u8::from_str_radix(src, 16): an optional + sign, then hexadecimal digits
\* of either case; the value must fit a u8
U8FromStrRadix16(src) ==
    IF src = <<>> THEN Err
    ELSE IF Len(src) = 1 /\ src[1] \in {"+", "-"} THEN Err
    ELSE LET digits == IF src[1] = "+" THEN Tail(src) ELSE src
         IN  IF \E k \in 1..Len(digits) : digits[k] \notin DOMAIN HexDigitValue THEN Err
             ELSE IF Radix16Value(digits, 0) > 255 THEN Err
             ELSE Ok(Radix16Value(digits, 0))

Panic == [name |-> "Panic"]

\* ChatColor::from_hex_str (formatting.rs 29-42); slicing off a character
\* boundary panics
from_hex_str(hex_str) ==
    IF ~(hex_str # <<>> /\ hex_str[1] = "#") \/ ByteLen(hex_str) # 7
    THEN ErrKind("InvalidHexFormat")
    ELSE IF ~IsCharBoundary(hex_str, 3) THEN Panic
    ELSE LET r == U8FromStrRadix16(ByteSlice(hex_str, 1, 3))
         IN  IF r.name = "Err" THEN ErrKind("HexUnparsableInt")
             ELSE IF ~IsCharBoundary(hex_str, 5) THEN Panic
             ELSE LET g == U8FromStrRadix16(ByteSlice(hex_str, 3, 5))
                      b == U8FromStrRadix16(ByteSlice(hex_str, 5, 7))
                  IN  IF g.name = "Err" THEN ErrKind("HexUnparsableInt")
                      ELSE IF b.name = "Err" THEN ErrKind("HexUnparsableInt")
                      ELSE Ok(Hex(<<r.value, g.value, b.value>>))

\* ChatColor::from_color_code (formatting.rs 67-77)
from_color_code(color_code) ==
    IF Len(color_code) = 2
    THEN LET c == from_color_code_char(color_code[2])
         IN  IF c.name = "Ok" THEN Ok(Named(c.value)) ELSE ErrKind("InvalidColorCodeChar")
    ELSE ErrKind("InvalidColorCodeFormat")

\* ChatColor::from_color_name (formatting.rs 79-104)
from_color_name(color_name) ==
    CASE color_name = <<"b", "l", "a", "c", "k">> -> Ok(Named("Black"))
      [] color_name = <<"d", "a", "r", "k", "_", "b", "l", "u", "e">> -> Ok(Named("DarkBlue"))
      [] color_name = <<"d", "a", "r", "k", "_", "g", "r", "e", "e", "n">> -> Ok(Named("DarkGreen"))
      [] color_name = <<"d", "a", "r", "k", "_", "a", "q", "u", "a">> -> Ok(Named("DarkAqua"))
      [] color_name = <<"d", "a", "r", "k", "_", "r", "e", "d">> -> Ok(Named("DarkRed"))
      [] color_name = <<"d", "a", "r", "k", "_", "p", "u", "r", "p", "l", "e">> -> Ok(Named("DarkPurple"))
      [] color_name = <<"g", "o", "l", "d">> -> Ok(Named("Gold"))
      [] color_name = <<"g", "r", "a", "y">> -> Ok(Named("Gray"))
      [] color_name = <<"d", "a", "r", "k", "_", "g", "r", "a", "y">> -> Ok(Named("DarkGray"))
      [] color_name = <<"b", "l", "u", "e">> -> Ok(Named("Blue"))
      [] color_name = <<"g", "r", "e", "e", "n">> -> Ok(Named("Green"))
      [] color_name = <<"a", "q", "u", "a">> -> Ok(Named("Aqua"))
      [] color_name = <<"r", "e", "d">> -> Ok(Named("Red"))
      [] color_name = <<"l", "i", "g", "h", "t", "_", "p", "u", "r", "p", "l", "e">> -> Ok(Named("LightPurple"))
      [] color_name = <<"y", "e", "l", "l", "o", "w">> -> Ok(Named("Yellow"))
      [] color_name = <<"w", "h", "i", "t", "e">> -> Ok(Named("White"))
      [] color_name = <<"r", "e", "s", "e", "t">> -> Ok(Named("Reset"))
      [] OTHER -> ErrKind("InvalidColorName")

\* impl FromStr for ChatColor (formatting.rs 188-200)
from_str(str) ==
    IF str # <<>> /\ str[1] = "#" THEN from_hex_str(str)
    ELSE IF str # <<>> /\ str[1] = Paragraph THEN from_color_code(str)
    ELSE IF from_color_name(str).name = "Ok" THEN from_color_name(str)
    ELSE ErrKind("UnknownChatColorFormat")

----------------------------------------------------------------------------
(* Displaying and parsing a colour (specification SpecColor) *)

\* longest tail of a string that starts with #
MaxHexLen == 6

ByteSamples == {0, 4, 15, 16, 240, 255}

\* the byte-triplet colours of the model: one channel ranges over every byte
HexTriples ==
    {<<x, y, z>> : x \in 0..255, y \in ByteSamples, z \in ByteSamples}
    \cup {<<y, x, z>> : x \in 0..255, y \in ByteSamples, z \in ByteSamples}
    \cup {<<y, z, x>> : x \in 0..255, y \in ByteSamples, z \in ByteSamples}

ColorValues == {Named(v) : v \in NamedVariants} \cup {Hex(t) : t \in HexTriples}

HexTailAlphabet == {"F", "a", "x", "+", Paragraph}

ColorStrings ==
    {<<"#">> \o t : t \in StringsUpTo(HexTailAlphabet, MaxHexLen)}
    \cup {<<Paragraph>> \o t : t \in StringsUpTo({"c", "r", "l", "x", Paragraph}, 2)}
    \cup {DisplayName(v) : v \in NamedVariants}
    \cup {<<>>, <<"f", "o", "o", "b", "a", "r">>, <<"R", "e", "d">>, <<"c">>,
          <<"r", "e", "d", " ">>}

InitColor ==
    /\ op = "color"
    /\ \/ chat_color \in ColorValues /\ color_str = <<>> /\ cpc = "display"
       \/ chat_color = None /\ color_str \in ColorStrings /\ cpc = "from_str"
    /\ parsed = None
    /\ LegacyPlainTranslateIdle /\ RenderIdle /\ DecodeIdle

\* color.to_string()
ColorDisplay ==
    /\ cpc = "display"
    /\ color_str' = Display(chat_color)
    /\ cpc' = "from_str"
    /\ UNCHANGED <<op, chat_color, parsed, legacyVars, plainVars, translateVars,
                   renderVars, decodeVars>>

\* color_str.parse::<ChatColor>()
ColorFromStr ==
    /\ cpc = "from_str"
    /\ LET r == from_str(color_str)
       IN  IF r = Panic
           THEN cpc' = "panicked" /\ parsed' = parsed
           ELSE cpc' = "returned" /\ parsed' = r
    /\ UNCHANGED <<op, chat_color, color_str, legacyVars, plainVars, translateVars,
                   renderVars, decodeVars>>

NextColor == ColorDisplay \/ ColorFromStr

SpecColor == InitColor /\ [][NextColor]_vars

\* C12: every colour parses back from its display string: the 17 named
\* variants from their symbolic name, a byte-triplet colour from # and six
\* upper-case hexadecimal digits, two per channel.
C12_DisplayRoundTrip ==
    cpc \in {"returned", "panicked"} /\ chat_color # None =>
        /\ cpc = "returned"
        /\ parsed = Ok(chat_color)
        /\ chat_color.variant = "Hex" =>
             /\ Len(color_str) = 7
             /\ color_str[1] = "#"
             /\ \A k \in 2..7 : \E d \in 1..16 : color_str[k] = UpperHexDigits[d]

\* the colour Hex([0xF0, 0x04, 0x10]) came back from "#F00410"
C12_Witness ==
    /\ cpc = "returned"
    /\ chat_color = Hex(<<240, 4, 16>>)
    /\ color_str = <<"#", "F", "0", "0", "4", "1", "0">>
    /\ parsed = Ok(chat_color)

IsHexDigit(c) == c \in DOMAIN HexDigitValue

\* C13 as stated: parsing a colour string never aborts; a string that starts
\* with # is accepted exactly when it is # and six hexadecimal digits and is
\* otherwise rejected as invalid hex format or unparsable hex digit; a string
\* that starts with the marker is accepted exactly when it is the marker and
\* one colour code and is otherwise rejected as wrong length or unrecognized
\* code; any other string that is not a symbolic name is rejected as unknown
\* colour format.
C13_StrictColorParsing ==
    cpc \in {"returned", "panicked"} /\ chat_color = None =>
        /\ cpc = "returned"
        /\ IF color_str # <<>> /\ color_str[1] = "#"
           THEN IF Len(color_str) = 7 /\ \A k \in 2..7 : IsHexDigit(color_str[k])
                THEN parsed.name = "Ok"
                ELSE parsed \in {ErrKind("InvalidHexFormat"), ErrKind("HexUnparsableInt")}
           ELSE IF color_str # <<>> /\ color_str[1] = Paragraph
           THEN IF Len(color_str) = 2 /\ color_str[2] \in ColorCodeChars
                THEN parsed.name = "Ok"
                ELSE parsed \in {ErrKind("InvalidColorCodeFormat"),
                                 ErrKind("InvalidColorCodeChar")}
           ELSE IF \E v \in NamedVariants : color_str = DisplayName(v)
           THEN parsed.name = "Ok"
           ELSE parsed = ErrKind("UnknownChatColorFormat")

----------------------------------------------------------------------------
(* Decoding a TextContent (specification SpecDecode).  The object decoded   *)
(* is given by the set of its keys, each with a value of the type the       *)
(* declaration asks for.                                                    *)

\* the keys of the variants of TextContent (chat.rs 149-179)
ContentKeys ==
    {"translate", "with", "fallback", "keybind", "nbt", "interpret", "separator",
     "block", "entity", "storage", "selector", "score", "text"}

\* Variants with Literal declared first
VariantsLiteralFirst ==
    <<[kind |-> "Literal", required |-> {"text"}],
      [kind |-> "Translatable", required |-> {"translate"}],
      [kind |-> "Keybind", required |-> {"keybind"}],
      [kind |-> "Nbt", required |-> {"nbt"}],
      [kind |-> "EntityNamesSelector", required |-> {"selector"}],
      [kind |-> "ScoreboardValue", required |-> {"score"}]>>

\* the variants in declaration order with the fields that are neither an
\* Option nor #[serde(default)] (chat.rs 148-180)
Variants ==
    <<[kind |-> "Translatable", required |-> {"translate"}],
      [kind |-> "Keybind", required |-> {"keybind"}],
      [kind |-> "Nbt", required |-> {"nbt"}],
      [kind |-> "EntityNamesSelector", required |-> {"selector"}],
      [kind |-> "ScoreboardValue", required |-> {"score"}],
      [kind |-> "Literal", required |-> {"text"}]>>

\* #[serde(untagged)] (chat.rs 147): the variants are tried in declaration
\* order and the first that decodes is taken; none is an error
DecodeContent(keys) ==
    LET matching == {k \in 1..Len(Variants) : Variants[k].required \subseteq keys}
    IN  IF matching = {} THEN Err
        ELSE Ok(Variants[CHOOSE k \in matching : \A j \in matching : k <= j].kind)

InitDecode ==
    /\ op = "decode"
    /\ json_fields \in SUBSET ContentKeys
    /\ decoded = None
    /\ dpc = "decode"
    /\ LegacyPlainTranslateIdle /\ RenderIdle /\ ColorIdle

\* serde_json::from_value::<ChatComponent>, for its flattened content
Decode ==
    /\ dpc = "decode"
    /\ decoded' = DecodeContent(json_fields)
    /\ dpc' = "returned"
    /\ UNCHANGED <<op, json_fields, legacyVars, plainVars, translateVars,
                   renderVars, colorVars>>

NextDecode == Decode

SpecDecode == InitDecode /\ [][NextDecode]_vars

\* C14: a decoded content is the first of Translatable, Keybind, nbt
\* reference, entity selector, scoreboard value, Literal whose required field
\* is in the object; an object that matches several takes the earliest, and
\* Literal is taken when no earlier one matches.
C14_FirstMatchingVariant ==
    dpc = "returned" /\ decoded.name = "Ok" =>
        decoded.value =
            IF "translate" \in json_fields THEN "Translatable"
            ELSE IF "keybind" \in json_fields THEN "Keybind"
            ELSE IF "nbt" \in json_fields THEN "Nbt"
            ELSE IF "selector" \in json_fields THEN "EntityNamesSelector"
            ELSE IF "score" \in json_fields THEN "ScoreboardValue"
            ELSE "Literal"

\* an object with both a translate key and a text field has been decoded
C14_Witness ==
    /\ dpc = "returned"
    /\ json_fields = {"translate", "text"}
    /\ decoded = Ok("Translatable")

----------------------------------------------------------------------------
(* The scanner state after a substituted argument (specification SpecRender) *)

RECURSIVE ArgEndsFrom(_, _, _, _, _)
\* the lengths of the translated text at the end of every substituted
\* argument, walking the template as replace_all does
ArgEndsFrom(text, p, cursor, outlen, arglist) ==
    LET m == NextMatch(text, p)
    IN  IF ~m.found THEN {}
        ELSE LET r == Replacement(m, cursor, arglist, FALSE)
                 end == outlen + (m.start - p) + Len(r.text)
             IN  (IF m.group_2 = <<"s">> /\ r.text # <<>> THEN {end} ELSE {})
                 \cup ArgEndsFrom(text, m.end, r.cursor, end, arglist)

\* the offsets in the rendering of a translatable node just after each
\* substituted argument (the argument's rendering and the re-appended prefix)
ArgEnds(node) ==
    LET prefix == ComponentFormatting(node)
        with == IF node.content.with.name = "Some" THEN node.content.with.value ELSE <<>>
        resolved == ResolveArgs(with, prefix, Translations, FALSE).list
        tpl == Lookup(Translations, node.content.translate, node.content.fallback)
    IN  {Len(prefix) + e : e \in ArgEndsFrom(tpl, 1, 0, 0, resolved)}

\* the flags of a node as a set
FlagsOf(node) ==
    {f \in ChatFormats :
        \/ f = "Bold" /\ node.bold
        \/ f = "Italic" /\ node.italic
        \/ f = "Underlined" /\ node.underlined
        \/ f = "Strikethrough" /\ node.strikethrough
        \/ f = "Obfuscated" /\ node.obfuscated}

\* a colour option with no colour read as reset
NoneAsReset(color) == IF color.name = "Some" THEN color.value ELSE "Reset"

\* C15: in the rendering of a Translatable node, the scanner's colour and
\* flags just after every substituted argument are the node's own colour
\* (none read as reset) and flags.
C15_FormattingRestoredAfterArgument ==
    rpc = "returned" /\ component.content.kind = "Translatable" =>
        \A e \in ArgEnds(component) :
            LET st == ScanFrom(ScanInit, SubSeq(rendered, 1, e), 1)
            IN  /\ NoneAsReset(st.cur_color) = NoneAsReset(component.color)
                /\ st.cur_formattings = FlagsOf(component)

\* the same for the nodes with a colour that has a code
C15_RestoredWhenNodeHasColorCode ==
    rpc = "returned" /\ component.content.kind = "Translatable"
      /\ component.color \in {Some("Red"), Some("Reset")} =>
        \A e \in ArgEnds(component) :
            LET st == ScanFrom(ScanInit, SubSeq(rendered, 1, e), 1)
            IN  /\ NoneAsReset(st.cur_color) = NoneAsReset(component.color)
                /\ st.cur_formattings = FlagsOf(component)

\* a bold node without colour whose argument is the bare legacy string
\* "\u{a7}aX" has been rendered
C15_Witness ==
    /\ rpc = "returned"
    /\ component.content.kind = "Translatable"
    /\ component.content.translate = <<"%", "s", "!">>
    /\ component.content.with = Some(<<Legacy(<<Paragraph, "a", "X">>)>>)
    /\ component.color = None
    /\ FlagsOf(component) = {"Bold"}
    /\ rendered = <<Paragraph, "l", Paragraph, "a", "X", Paragraph, "l", "!",
                    Paragraph, "r">>
    /\ ArgEnds(component) = {7}

----------------------------------------------------------------------------
(* legacy_to_ansi (lib.rs 6-29; specification SpecAnsi) *)

\* the character \x1B
ESC == "\\x1B"

RECURSIVE Decimal(_)
\* {} of an unsigned integer
Decimal(n) ==
    LET digit == <<"0", "1", "2", "3", "4", "5", "6", "7", "8", "9">>[(n % 10) + 1]
    IN  IF n < 10 THEN <<digit>> ELSE Append(Decimal(n \div 10), digit)

\* ChatColor::into_ansi_escape_code (formatting.rs 129-160) for the colours a
\* colour code can name; the Hex arm is not reached from a code character
color_into_ansi_escape_code(self, reset_formatting) ==
    LET simple_color(reset, color) ==
            <<ESC, "[">> \o (IF reset THEN <<"0", ";">> ELSE <<>>) \o Decimal(color)
                \o <<"m">>
    IN  CASE self = "Black" -> simple_color(reset_formatting, 30)
          [] self = "DarkBlue" -> simple_color(reset_formatting, 34)
          [] self = "DarkGreen" -> simple_color(reset_formatting, 32)
          [] self = "DarkAqua" -> simple_color(reset_formatting, 36)
          [] self = "DarkRed" -> simple_color(reset_formatting, 31)
          [] self = "DarkPurple" -> simple_color(reset_formatting, 35)
          [] self = "Gold" -> simple_color(reset_formatting, 33)
          [] self = "Gray" -> simple_color(reset_formatting, 37)
          [] self = "DarkGray" -> simple_color(reset_formatting, 90)
          [] self = "Blue" -> simple_color(reset_formatting, 94)
          [] self = "Green" -> simple_color(reset_formatting, 92)
          [] self = "Aqua" -> simple_color(reset_formatting, 96)
          [] self = "Red" -> simple_color(reset_formatting, 91)
          [] self = "LightPurple" -> simple_color(reset_formatting, 95)
          [] self = "Yellow" -> simple_color(reset_formatting, 93)
          [] self = "White" -> simple_color(reset_formatting, 97)
          [] self = "Reset" -> <<ESC, "[", "0", "m">>

\* ChatFormat::into_ansi_display_attribute (formatting.rs 246-254)
into_ansi_display_attribute(self) ==
    CASE self = "Bold" -> 1
      [] self = "Italic" -> 3
      [] self = "Underlined" -> 4
      [] self = "Strikethrough" -> 9
      [] self = "Obfuscated" -> 8

\* ChatFormat::into_ansi_escape_code (formatting.rs 256-258)
format_into_ansi_escape_code(self) ==
    <<ESC, "[">> \o Decimal(into_ansi_display_attribute(self)) \o <<"m">>

\* AnsiBody with the marker pushed before an unknown code (lib.rs 16, commented out)
AnsiBodyShowParagraph(st, chr) ==
    IF st.was_paragraph
    THEN LET code_color == from_color_code_char(chr)
             code_format == from_format_code_char(chr)
         IN  [output |->
                 IF code_color.name = "Ok"
                 THEN st.output \o color_into_ansi_escape_code(code_color.value, TRUE)
                 ELSE IF code_format.name = "Ok"
                 THEN st.output \o format_into_ansi_escape_code(code_format.value)
                 ELSE st.output \o <<Paragraph, chr>>,
              was_paragraph |-> FALSE]
    ELSE IF chr = Paragraph
    THEN [st EXCEPT !.was_paragraph = TRUE]
    ELSE [st EXCEPT !.output = Append(@, chr)]

\* one iteration of `for chr in input.chars()` (lib.rs 9-27)
AnsiBody(st, chr) ==
    IF st.was_paragraph
    THEN LET code_color == from_color_code_char(chr)
             code_format == from_format_code_char(chr)
         IN  [output |->
                 IF code_color.name = "Ok"
                 THEN st.output \o color_into_ansi_escape_code(code_color.value, TRUE)
                 ELSE IF code_format.name = "Ok"
                 THEN st.output \o format_into_ansi_escape_code(code_format.value)
                 ELSE Append(st.output, chr),
              was_paragraph |-> FALSE]
    ELSE IF chr = Paragraph
    THEN [st EXCEPT !.was_paragraph = TRUE]
    ELSE [st EXCEPT !.output = Append(@, chr)]

\* "\u{a7}cA\u{a7}lA\u{a7}"
ColorFlagTrailing == <<Paragraph, "c", "A", Paragraph, "l", "A", Paragraph>>

\* every string of LegacyInputs and every code character after a marker
AnsiInputs ==
    LegacyInputs \cup {ColorFlagTrailing}
    \cup {<<"A", Paragraph, c, "b">> : c \in ColorCodeChars \cup {"k", "l", "m", "n", "o", "x"}}

\* a call of legacy_to_ansi
InitAnsi ==
    /\ op = "legacy_to_ansi"
    /\ input \in AnsiInputs
    /\ ipos = 0 /\ output = <<>> /\ was_paragraph = FALSE /\ ppc = "loop"
    /\ LegacyIdle /\ TranslateIdle /\ MoreIdle

\* one iteration of the for loop (lib.rs 9-27)
AnsiLoop ==
    /\ ppc = "loop"
    /\ ipos < Len(input)
    /\ LET st == AnsiBody([output |-> output, was_paragraph |-> was_paragraph],
                          input[ipos + 1])
       IN  /\ output' = st.output
           /\ was_paragraph' = st.was_paragraph
    /\ ipos' = ipos + 1
    /\ UNCHANGED <<op, moreVars, input, ppc, legacyVars, translateVars>>

\* lib.rs 28
AnsiReturn ==
    /\ ppc = "loop"
    /\ ipos = Len(input)
    /\ ppc' = "returned"
    /\ UNCHANGED <<op, moreVars, input, ipos, output, was_paragraph, legacyVars, translateVars>>

NextAnsi == AnsiLoop \/ AnsiReturn

SpecAnsi == InitAnsi /\ [][NextAnsi]_vars

\* the attribute number of each colour code, as text
ColorAttributeOfCode ==
    ("0" :> <<"3", "0">>) @@ ("1" :> <<"3", "4">>) @@ ("2" :> <<"3", "2">>)
    @@ ("3" :> <<"3", "6">>) @@ ("4" :> <<"3", "1">>) @@ ("5" :> <<"3", "5">>)
    @@ ("6" :> <<"3", "3">>) @@ ("7" :> <<"3", "7">>) @@ ("8" :> <<"9", "0">>)
    @@ ("9" :> <<"9", "4">>) @@ ("a" :> <<"9", "2">>) @@ ("b" :> <<"9", "6">>)
    @@ ("c" :> <<"9", "1">>) @@ ("d" :> <<"9", "5">>) @@ ("e" :> <<"9", "3">>)
    @@ ("f" :> <<"9", "7">>)

\* the attribute of each flag code, as text
FlagAttributeOfCode ==
    ("l" :> "1") @@ ("o" :> "3") @@ ("n" :> "4") @@ ("m" :> "9") @@ ("k" :> "8")

\* what an escape with code character c contributes to the output
ExpectedEscape(c) ==
    IF c = "r" THEN <<ESC, "[", "0", "m">>
    ELSE IF c \in DOMAIN ColorAttributeOfCode
    THEN <<ESC, "[", "0", ";">> \o ColorAttributeOfCode[c] \o <<"m">>
    ELSE IF c \in DOMAIN FlagAttributeOfCode
    THEN <<ESC, "[", FlagAttributeOfCode[c], "m">>
    ELSE <<c>>

RECURSIVE ExpectedAnsi(_)
\* the output by the grammar of escapes: a marker takes exactly the next
\* character, a marker at the end takes nothing
ExpectedAnsi(str) ==
    IF str = <<>> THEN <<>>
    ELSE IF str[1] # Paragraph THEN <<str[1]>> \o ExpectedAnsi(Tail(str))
    ELSE IF Len(str) = 1 THEN <<>>
    ELSE ExpectedEscape(str[2]) \o ExpectedAnsi(Tail(Tail(str)))

\* C16: legacy_to_ansi copies every character outside an escape; a marker
\* consumes exactly the next character c and emits ESC[0;Nm for a colour code
\* (ESC[0m for reset), ESC[Am for a flag code and c itself otherwise; the
\* marker is not copied by itself and a marker at the end emits nothing.
C16_AnsiOutput ==
    /\ ppc = "returned" => output = ExpectedAnsi(input)
    /\ ppc = "loop" =>
         /\ output = ExpectedAnsi(SubSeq(input, 1, ipos - (IF was_paragraph THEN 1 ELSE 0)))
         /\ was_paragraph => ipos >= 1 /\ input[ipos] = Paragraph

\* "\u{a7}cA\u{a7}lA\u{a7}" has been converted: a colour escape, a flag escape
\* and a marker at the end
C16_Witness ==
    /\ ppc = "returned"
    /\ input = ColorFlagTrailing
    /\ output = <<ESC, "[", "0", ";", "9", "1", "m", "A", ESC, "[", "1", "m", "A">>

----------------------------------------------------------------------------
(* The parsed tree against legacy_to_plain (specification Spec) *)

\* TextFormatter::to_plain_string (chat.rs 19-22) of a component, with a
\* default Translator
ToPlainString(self) == LegacyToPlain(ToLegacyString(self, <<>>, FALSE).text)

RECURSIVE ConcatTexts(_)
\* the texts of a sequence of literal runs, concatenated
ConcatTexts(comps) ==
    IF comps = <<>> THEN <<>>
    ELSE comps[1].content.text \o ConcatTexts(Tail(comps))

\* the text holds two markers in a row
ConsecutiveMarkers(text) ==
    \E k \in 1..(Len(text) - 1) : text[k] = Paragraph /\ text[k + 1] = Paragraph

\* C17: the plain rendering of the tree parsed from a legacy string s, which
\* is the concatenation of the texts of the root and its children, equals
\* legacy_to_plain(s), also when s holds consecutive markers.
C17_ParserAgreesWithPlain ==
    pc = "returned" =>
        /\ ToPlainString(root_component) = LegacyToPlain(legacy_text)
        /\ ConcatTexts(<<root_component>> \o root_component.extra)
             = LegacyToPlain(legacy_text)

\* the same for the strings without two markers in a row
C17_AgreesWithoutConsecutiveMarkers ==
    pc = "returned" /\ ~ConsecutiveMarkers(legacy_text) =>
        /\ ToPlainString(root_component) = LegacyToPlain(legacy_text)
        /\ ConcatTexts(<<root_component>> \o root_component.extra)
             = LegacyToPlain(legacy_text)

\* "\u{a7}\u{a7}cA" has been parsed to the single red run "A", where
\* legacy_to_plain gives "cA"
C17_Witness ==
    /\ pc = "returned"
    /\ legacy_text = <<Paragraph, Paragraph, "c", "A">>
    /\ ToPlainString(root_component) = <<"A">>
    /\ LegacyToPlain(legacy_text) = <<"c", "A">>

====
